---- MODULE Spec2Model ----
(***************************************************************************)
(* Stock / index correlation ranking of                                    *)
(* StockDownloader/src/utils/correlation_calculator.py.                    *)
(*                                                                         *)
(* The store holds derived_stock rows of one subject and the long-format   *)
(* derived_index rows (symbol, date, real_change) the calculator queries.  *)
(* real_change is a nullable number: a cell is <<>> (NULL) or <<v>>.       *)
(* Returns are integers (basis points); the averages the code computes by  *)
(* true division are compared as exact fractions.                          *)
(***************************************************************************)
EXTENDS Integers, Sequences, FiniteSets, TLC

\* ---------------------------------------------------------------- bounds
MaxVal == 1            \* real_change values are 0..MaxVal
MaxCalls == 2          \* length of the years list handed to the batch

\* ------------------------------------------------------------- constants
TargetYear == 2023

Subject == "sz002252"
RefOrder == <<"000001", "000300", "399001">>
Refs == {RefOrder[i] : i \in DOMAIN RefOrder}
None == "None"
EmptyDict == <<>>

\* dates are <<year, month, day>>
Dates == {<<TargetYear, 1, 3>>, <<TargetYear, 12, 29>>, <<TargetYear + 1, 1, 2>>}

Cell == {<<>>} \cup {<<v>> : v \in 0..MaxVal}

VARIABLES
    derived_stock,     \* the subject's derived_stock rows: date -> cell
    derived_index,     \* derived_index rows: <<symbol, date>> -> cell
    years,             \* the years list of the batch entry
    year_idx,          \* position of process_stock_batch in the years list
    pc,                \* "batch" | "loop" | "ret" | "end"
    stock_changes,     \* date -> real_change of the subject (non-null only)
    remaining,         \* keys of stock_changes the day loop has yet to visit
    index_symbols,     \* enumeration order of the distinct index symbols
    index_scores,      \* symbol -> cumulative rank sum
    index_valid_days,  \* symbol -> number of ranked days
    date,              \* the day loop's current date
    day_scores,        \* symbol -> the score it was given on that day
    best_index,        \* returned winner (None when there is none)
    out_scores,        \* returned score table
    out_valid_days,    \* returned valid-day table
    results            \* triples collected by process_stock_batch

\* update_stock_index_correlation and its pool of process_stock_batch workers
VARIABLES
    stock_symbol,      \* argument: None or the one symbol to update
    max_workers,       \* argument: <<>> (None) or <<n>>
    cpu_count,         \* os.cpu_count(): <<>> (None) or <<n>>
    workers,           \* max_workers after lines 220-224
    stock_info,        \* committed stock_info rows: symbol -> year -> index code
    session_info,      \* the rows as the parent's session holds them
    ustate,            \* "start" | "map" | "merge" | "done" | "raised"
    stocks,            \* the symbols of the stocks list
    batches,           \* the batches handed to process_stock_batch
    wpos,              \* per batch: <<position in the batch, position in years>>
    wstate,            \* per batch: "run" | "done" | "raised"
    wresults,          \* per batch: its results list
    wcalls,            \* per batch: the pairs it looked up in the store
    merged,            \* the results list of the parent
    merge_idx,         \* position of the write-back loop in merged
    tied_best,         \* symbol -> the references of minimal average in TargetYear
    broken             \* the pairs whose store lookup raises

orch == <<stock_symbol, max_workers, cpu_count, workers, stock_info, session_info,
          ustate, stocks, batches, wpos, wstate, wresults, wcalls, merged,
          merge_idx, tied_best, broken>>

VARIABLES
    task_status,       \* server.py: task name -> "idle" | "running" | "success" | "error"
    task_lock,         \* server.py: TRUE when task_lock is held
    handlers,          \* per request thread: [pc, task, request, response]
    threads,           \* the task threads started: [task, pc, released]
    arrivals           \* how many POST requests have arrived

srv == <<task_status, task_lock, handlers, threads, arrivals>>
VARIABLES
    retry_module,      \* which retry_with_delay: "daily_update" | "hot_rank_update"
    max_retries,       \* decorator argument
    initial_delay,     \* decorator argument
    fn_outcomes,       \* what the k-th call of func does: "return" | "raise"
    retries,           \* wrapper local
    delay,             \* wrapper local
    wrapper_pc,        \* "call" | "sleep" | "returned" | "raised" | "none"
    fn_calls,          \* how often func was called
    slept,             \* the waits so far: <<delay, time slept>>
    wrapper_result     \* <<>> | <<"value", k>> | <<"exception", k>> | <<"None">>

rty == <<retry_module, max_retries, initial_delay, fn_outcomes, retries, delay,
         wrapper_pc, fn_calls, slept, wrapper_result>>
VARIABLES
    latest_date,       \* latest date of each table: <<>> (None, empty table) or <<d>>
    attempt,           \* run_daily_update: the loop variable
    daily_pc,          \* run_daily_update: where the attempt stands
    need_update,       \* the four *_need_update flags of the attempt
    stock_thread,      \* the attempt's stock thread: "None" | "running" | "done" | "failed"
    stock_threads,     \* the threads of earlier attempts: how many are in each state
    pre_update_date,   \* run_daily_update local
    index_retries,     \* retries of the wrapper around update_index_data
    index_errors,      \* the exceptions raised in the index step
    daily_retries      \* retries of the wrapper around run_daily_update

dly == <<latest_date, attempt, daily_pc, need_update, stock_thread, stock_threads,
         pre_update_date, index_retries, index_errors, daily_retries>>
VARIABLES
    etf_autoflush,     \* whether the session flushes pending rows before a query
    etf_store,         \* etf_daily_data as committed: a sequence of rows
    etf_session,       \* the rows as the call's session sees them
    etf_pending,       \* rows added to the session and not flushed yet
    etf_pc,            \* save_etf_daily_data_to_db: "idle" | "rows" | "raised"
    etf_symbol,        \* the call's symbol
    etf_data,          \* the call's frame: a sequence of rows
    etf_row,           \* the row the loop is at
    etf_before,        \* the store when the call began
    etf_calls,         \* calls made
    etf_log            \* the calls that returned: symbol, data, store after

etf == <<etf_autoflush, etf_store, etf_session, etf_pending, etf_pc, etf_symbol,
         etf_data, etf_row, etf_before, etf_calls, etf_log>>
outside == <<srv, rty, dly, etf>>

vars == <<derived_stock, derived_index, years, year_idx, pc, stock_changes,
          remaining, index_symbols, index_scores, index_valid_days, date,
          day_scores, best_index, out_scores, out_valid_days, results, orch,
          outside>>

\* no update run is under way
OrchIdle ==
    /\ stock_symbol = None
    /\ max_workers = <<>>
    /\ cpu_count = <<>>
    /\ workers = 0
    /\ stock_info = EmptyDict
    /\ session_info = EmptyDict
    /\ ustate = "done"
    /\ stocks = <<>>
    /\ batches = <<>>
    /\ wpos = <<>>
    /\ wstate = <<>>
    /\ wresults = <<>>
    /\ wcalls = <<>>
    /\ merged = <<>>
    /\ merge_idx = 1
    /\ tied_best = EmptyDict
    /\ broken = {}

Tasks == {"update_data", "rebuild_database", "update_correlation"}

\* the server has received no request
SrvIdle ==
    /\ task_status = [t \in Tasks |-> "idle"]
    /\ task_lock = FALSE
    /\ handlers = <<>>
    /\ threads = <<>>
    /\ arrivals = 0

\* no wrapped function is being called
RtyIdle ==
    /\ retry_module = None
    /\ max_retries = 0
    /\ initial_delay = 0
    /\ fn_outcomes = <<>>
    /\ retries = 0
    /\ delay = 0
    /\ wrapper_pc = "none"
    /\ fn_calls = 0
    /\ slept = <<>>
    /\ wrapper_result = <<>>

Kinds == {"stock", "index", "etf", "hot_rank"}
ThreadStates == {"running", "done", "failed"}

\* no daily update is under way
DlyIdle ==
    /\ latest_date = [k \in Kinds |-> <<>>]
    /\ attempt = 0
    /\ daily_pc = "returned"
    /\ need_update = [k \in Kinds |-> FALSE]
    /\ stock_thread = "None"
    /\ stock_threads = [t \in ThreadStates |-> 0]
    /\ pre_update_date = <<>>
    /\ index_retries = 0
    /\ index_errors = {}
    /\ daily_retries = 0

\* no save is under way and the table is empty
EtfIdle ==
    /\ etf_autoflush = TRUE
    /\ etf_store = <<>>
    /\ etf_session = <<>>
    /\ etf_pending = <<>>
    /\ etf_pc = "idle"
    /\ etf_symbol = None
    /\ etf_data = <<>>
    /\ etf_row = 0
    /\ etf_before = <<>>
    /\ etf_calls = 0
    /\ etf_log = <<>>

OutsideIdle == SrvIdle /\ RtyIdle /\ DlyIdle /\ EtfIdle

store == <<derived_stock, derived_index, years>>
locals == <<stock_changes, remaining, index_symbols, index_scores,
            index_valid_days, date, day_scores>>
returned == <<best_index, out_scores, out_valid_days>>

\* --------------------------------------------------------------- helpers
Abs(x) == IF x < 0 THEN -x ELSE x

Perms(S) == {f \in [1..Cardinality(S) -> S] : \A x \in S : \E i \in DOMAIN f : f[i] = x}

DateLE(a, b) ==
    \/ a[1] < b[1]
    \/ a[1] = b[1] /\ a[2] < b[2]
    \/ a[1] = b[1] /\ a[2] = b[2] /\ a[3] <= b[3]

start_date(year) == <<year, 1, 1>>
end_date(year) == <<year, 12, 31>>

\* the query without its date range
StockDataAnyYear(year) == DOMAIN derived_stock

\* the dates of the subject's rows of the year (the query of lines 51-55)
StockData(year) ==
    {d \in DOMAIN derived_stock :
        DateLE(start_date(year), d) /\ DateLE(d, end_date(year))}

\* lines 65-68: only the rows with a real_change
StockChanges(stock_data) ==
    LET valid == {d \in stock_data : derived_stock[d] # <<>>}
    IN [d \in valid |-> derived_stock[d][1]]

\* the distinct symbols of derived_index (line 75)
DistinctSymbols == {k[1] : k \in DOMAIN derived_index}

\* the symbols with a derived_index row on a date (lines 89-91)
SymbolsOn(d) == {s \in Refs : <<s, d>> \in DOMAIN derived_index}

\* a NULL real_change read as 0
RECURSIVE DifferencesNullAsZero(_, _)
DifferencesNullAsZero(index_changes, stock_change) ==
    IF index_changes = <<>> THEN <<>>
    ELSE LET idx == Head(index_changes)
             change == IF idx[2] # <<>> THEN idx[2][1] ELSE 0
         IN <<<<idx[1], Abs(change - stock_change)>>>>
                \o DifferencesNullAsZero(Tail(index_changes), stock_change)

\* lines 94-101: <<symbol, diff>> of the rows with a real_change, in row order
RECURSIVE Differences(_, _)
Differences(index_changes, stock_change) ==
    IF index_changes = <<>> THEN <<>>
    ELSE LET idx == Head(index_changes)
             rest == Differences(Tail(index_changes), stock_change)
         IN IF idx[2] # <<>>
            THEN <<<<idx[1], Abs(idx[2][1] - stock_change)>>>> \o rest
            ELSE rest

\* line 108: list.sort(key=diff), a stable sort
InsertStable(sorted, x) ==
    LET n == Cardinality({i \in 1..Len(sorted) : sorted[i][2] <= x[2]})
    IN SubSeq(sorted, 1, n) \o <<x>> \o SubSeq(sorted, n + 1, Len(sorted))

RECURSIVE SortByDiff(_)
SortByDiff(s) ==
    IF s = <<>> THEN <<>>
    ELSE InsertStable(SortByDiff(SubSeq(s, 1, Len(s) - 1)), s[Len(s)])

\* lines 111-118: the score of each sorted row; i is enumerate's 0-based index
RECURSIVE ScoreLoop(_, _, _, _)
ScoreLoop(differences, i, current_score, prev_diff) ==
    IF i >= Len(differences) THEN <<>>
    ELSE LET diff == differences[i + 1][2]
             score == IF prev_diff # <<>> /\ <<diff>> # prev_diff
                      THEN i + 1 ELSE current_score
         IN <<score>> \o ScoreLoop(differences, i + 1, score, <<diff>>)

\* dense ranking: the score grows by one at each new difference
RECURSIVE DenseLoop(_, _, _, _)
DenseLoop(differences, i, current_score, prev_diff) ==
    IF i >= Len(differences) THEN <<>>
    ELSE LET diff == differences[i + 1][2]
             score == IF prev_diff # <<>> /\ <<diff>> # prev_diff
                      THEN current_score + 1 ELSE current_score
         IN <<score>> \o DenseLoop(differences, i + 1, score, <<diff>>)

AssignScoresDense(differences) == DenseLoop(differences, 0, 1, <<>>)

\* ordinal ranking: the score is the position, ties or not
AssignScoresOrdinal(differences) == [i \in DOMAIN differences |-> i]

\* ranks counted from 0: current_score starts at 0 and is set to i
AssignScoresZeroBased(differences) ==
    [k \in DOMAIN differences |-> ScoreLoop(differences, 0, 1, <<>>)[k] - 1]

AssignScores(differences) == ScoreLoop(differences, 0, 1, <<>>)

\* the two increments of lines 116-117 exchanged
AddRowSwapped(tab, symbol, score) ==
    [scores |-> [tab.scores EXCEPT ![symbol] = @ + 1],
     days   |-> [tab.days EXCEPT ![symbol] = @ + score]]

\* lines 116-117 for one row
AddRow(tab, symbol, score) ==
    [scores |-> [tab.scores EXCEPT ![symbol] = @ + score],
     days   |-> [tab.days EXCEPT ![symbol] = @ + 1]]

RECURSIVE Accumulate(_, _, _, _)
Accumulate(tab, differences, scores, i) ==
    IF i > Len(differences) THEN tab
    ELSE Accumulate(AddRow(tab, differences[i][1], scores[i]),
                    differences, scores, i + 1)

\* lines 113-116: the current_score each symbol of the day was given
DayScores(differences, scores) ==
    [s \in {differences[i][1] : i \in DOMAIN differences} |->
        scores[CHOOSE i \in DOMAIN differences : differences[i][1] = s]]

\* lines 121-126: the symbols with a valid day, in the dict's order
RECURSIVE ValidIndices(_, _)
ValidIndices(symbols, valid_days) ==
    IF symbols = <<>> THEN <<>>
    ELSE IF valid_days[Head(symbols)] > 0
         THEN <<Head(symbols)>> \o ValidIndices(Tail(symbols), valid_days)
         ELSE ValidIndices(Tail(symbols), valid_days)

\* the cumulative sums compared, without the division
SumLess(scores, valid_days, a, b) == scores[a] < scores[b]

\* score / valid_days of two symbols compared as fractions
AvgLess(scores, valid_days, a, b) ==
    scores[a] * valid_days[b] < scores[b] * valid_days[a]

\* line 133: min(..., key=avg) keeps the first minimal item
RECURSIVE MinLoop(_, _, _, _)
MinLoop(items, best, scores, valid_days) ==
    IF items = <<>> THEN best
    ELSE MinLoop(Tail(items),
                 IF AvgLess(scores, valid_days, Head(items), best)
                 THEN Head(items) ELSE best,
                 scores, valid_days)

\* a symbol without a valid day taken as average 0
SelectBestZeroScored(symbols, scores, valid_days) ==
    LET zero == {i \in DOMAIN symbols : valid_days[symbols[i]] = 0}
    IN IF symbols = <<>> THEN None
       ELSE IF zero # {} THEN symbols[CHOOSE i \in zero : \A j \in zero : i <= j]
       ELSE MinLoop(Tail(symbols), Head(symbols), scores, valid_days)

SelectBest(symbols, scores, valid_days) ==
    LET valid_indices == ValidIndices(symbols, valid_days)
    IN IF valid_indices = <<>> THEN None
       ELSE MinLoop(Tail(valid_indices), Head(valid_indices), scores, valid_days)

\* a triple kept whatever was returned
RecordResultAlways(res, year, best) == Append(res, <<Subject, year, best>>)

\* the tables of the previous computation kept as the start of the next
CarriedTable(symbols) ==
    [s \in symbols |-> IF s \in DOMAIN out_valid_days THEN out_valid_days[s] ELSE 0]

\* lines 83-84: both tables start at 0 for every symbol
FreshTable(symbols) == [s \in symbols |-> 0]

\* a day without valued rows ends the loop (break for continue)
BreakOnEmptyDay(rem, d, differences) ==
    IF differences = <<>> THEN {} ELSE rem \ {d}

\* lines 87 and 104-105: the loop goes on with the other dates, also after a
\* day without valued rows
AfterDay(rem, d, differences) == rem \ {d}

\* lines 171-173: the batch keeps a triple only for a winner
RecordResult(res, year, best) ==
    IF best # None THEN Append(res, <<Subject, year, best>>) ELSE res

\* ----------------------------------------------------------------- init
YearsArg == [i \in 1..MaxCalls |-> TargetYear]

InYear(d) == d[1] = TargetYear

\* the subject has a row with a return on the date outside the year
StockTables ==
    {t \in UNION {[S -> Cell] : S \in SUBSET Dates} :
        \A d \in Dates : ~InYear(d) => d \in DOMAIN t /\ t[d] = <<0>>}

\* a symbol's rows of the year as a number; 0 when it has no row at all
CellCode(c) == IF c = <<>> THEN 0 ELSE c[1] + 1

RECURSIVE ColumnCode(_, _, _)
ColumnCode(t, s, ds) ==
    IF ds = {} THEN 1
    ELSE LET d == CHOOSE x \in ds : \A y \in ds : DateLE(x, y)
         IN CellCode(t[<<s, d>>]) + (MaxVal + 2) * ColumnCode(t, s, ds \ {d})

ColumnKey(t, s) ==
    IF <<s, CHOOSE d \in Dates : TRUE>> \in DOMAIN t
    THEN ColumnCode(t, s, {d \in Dates : InYear(d)}) ELSE 0

\* a known symbol has a row on every date, with a return on the date outside
\* the year. The code never inspects a symbol, and both the enumeration order
\* and the row order are explored in full, so the tables are taken up to a
\* renaming of the symbols
IndexTables ==
    {t \in UNION {[K \X Dates -> Cell] : K \in SUBSET Refs} :
        /\ \A k \in DOMAIN t : ~InYear(k[2]) => t[k] = <<0>>
        /\ \A i \in 1..(Len(RefOrder) - 1) :
              ColumnKey(t, RefOrder[i]) <= ColumnKey(t, RefOrder[i + 1])}

Init ==
    /\ derived_stock \in StockTables
    /\ derived_index \in IndexTables
    /\ years = YearsArg
    /\ year_idx = 1
    /\ pc = "batch"
    /\ stock_changes = EmptyDict
    /\ remaining = {}
    /\ index_symbols = <<>>
    /\ index_scores = EmptyDict
    /\ index_valid_days = EmptyDict
    /\ date = None
    /\ day_scores = EmptyDict
    /\ best_index = None
    /\ out_scores = EmptyDict
    /\ out_valid_days = EmptyDict
    /\ results = <<>>
    /\ OrchIdle
    /\ OutsideIdle

\* -------------------------------------------------------------- actions
ReturnNone ==
    /\ pc' = "ret"
    /\ best_index' = None
    /\ out_scores' = EmptyDict
    /\ out_valid_days' = EmptyDict
    /\ stock_changes' = EmptyDict
    /\ remaining' = {}
    /\ index_symbols' = <<>>
    /\ index_scores' = EmptyDict
    /\ index_valid_days' = EmptyDict
    /\ date' = None
    /\ day_scores' = EmptyDict

\* process_stock_batch takes the next year and calls
\* calculate_correlation_for_stock, which runs up to its day loop
Query ==
    /\ pc = "batch"
    /\ year_idx <= Len(years)
    /\ LET year == years[year_idx]
           stock_data == StockData(year)
           changes == StockChanges(stock_data)
       IN IF stock_data = {} \/ DOMAIN changes = {} \/ DistinctSymbols = {}
          THEN ReturnNone
          ELSE \E symbols \in Perms(DistinctSymbols) :
                /\ pc' = "loop"
                /\ stock_changes' = changes
                /\ remaining' = DOMAIN changes
                /\ index_symbols' = symbols
                /\ index_scores' = FreshTable(DistinctSymbols)
                /\ index_valid_days' = FreshTable(DistinctSymbols)
                /\ date' = None
                /\ day_scores' = EmptyDict
                /\ UNCHANGED returned
    /\ UNCHANGED <<orch, outside, store, year_idx, results>>

\* one iteration of the day loop
ProcessDay ==
    /\ pc = "loop"
    /\ \E d \in remaining : \E order \in Perms(SymbolsOn(d)) :
        LET index_changes == [i \in DOMAIN order |->
                                <<order[i], derived_index[<<order[i], d>>]>>]
            differences == SortByDiff(Differences(index_changes, stock_changes[d]))
            scores == AssignScores(differences)
            tab == Accumulate([scores |-> index_scores, days |-> index_valid_days],
                              differences, scores, 1)
        IN /\ date' = d
           /\ remaining' = AfterDay(remaining, d, differences)
           /\ day_scores' = DayScores(differences, scores)
           /\ index_scores' = tab.scores
           /\ index_valid_days' = tab.days
    /\ UNCHANGED <<orch, outside, store, year_idx, pc, stock_changes, index_symbols, returned, results>>

\* the winner is selected and the call returns
Select ==
    /\ pc = "loop"
    /\ remaining = {}
    /\ LET best == SelectBest(index_symbols, index_scores, index_valid_days)
       IN IF best = None
          THEN ReturnNone
          ELSE /\ pc' = "ret"
               /\ best_index' = best
               /\ out_scores' = index_scores
               /\ out_valid_days' = index_valid_days
               /\ stock_changes' = EmptyDict
               /\ remaining' = {}
               /\ index_symbols' = <<>>
               /\ index_scores' = EmptyDict
               /\ index_valid_days' = EmptyDict
               /\ date' = None
               /\ day_scores' = EmptyDict
    /\ UNCHANGED <<orch, outside, store, year_idx, results>>

\* process_stock_batch handles the returned triple and moves to the next year
Record ==
    /\ pc = "ret"
    /\ results' = RecordResult(results, years[year_idx], best_index)
    /\ year_idx' = year_idx + 1
    /\ pc' = IF year_idx + 1 > Len(years) THEN "end" ELSE "batch"
    /\ UNCHANGED <<orch, outside, store, locals, returned>>

Next == Query \/ ProcessDay \/ Select \/ Record

Spec == Init /\ [][Next]_vars

\* ------------------------------------------------------ the update run
MaxWorkers == 3        \* max_workers arguments are -1..MaxWorkers
MaxCpu == 6            \* os.cpu_count() is None or 3..MaxCpu

ReservedCores == 4
FirstColumnYear == 2020
LastColumnYear == 2024
ColumnYears == FirstColumnYear..LastColumnYear

\* datetime.now().year of line 163, and the years around TargetYear
CurrentYear == TargetYear + 1
FutureYear == CurrentYear + 1
PastYear == TargetYear - 1

OldIndex == "000905"
MissingSymbol == "sz999999"
AllStocks == {Subject, "sh600000", "sz000001"}

Max(a, b) == IF a > b THEN a ELSE b
Min(a, b) == IF a < b THEN a ELSE b

\* line 164 with the test off by one year
IsFutureLate(year) == year > CurrentYear + 1

\* line 164
IsFuture(year) == year > CurrentYear

\* what calculate_correlation_for_stock can return for a pair: one of the
\* references of minimal average, in whatever order line 75 enumerates them,
\* or None when there is none
Outcomes(symbol, year) ==
    LET tied == IF year = TargetYear THEN tied_best[symbol]
                ELSE IF year = PastYear THEN {RefOrder[3]}
                ELSE {}
    IN IF tied = {} THEN {None} ELSE tied

\* a triple kept whatever was returned
BatchAppendAlways(res, symbol, year, best) == Append(res, <<symbol, year, best>>)

\* lines 171-173
BatchAppend(res, symbol, year, best) ==
    IF best # None THEN Append(res, <<symbol, year, best>>) ELSE res

\* lines 153 and 161: the position after a pair, years first
NextPos(pos) ==
    IF pos[2] < Len(years) THEN <<pos[1], pos[2] + 1>> ELSE <<pos[1] + 1, 1>>

\* line 224
AutoWorkers(cpu) ==
    IF cpu # <<>> /\ cpu[1] # 0 THEN Max(1, cpu[1] - ReservedCores) ELSE 1

\* line 252
SingleProcess(stks, mw) == Len(stks) = 1 \/ mw = 1

\* math.ceil(n / m) for n >= 0 and m # 0
CeilDiv(n, m) ==
    IF m > 0 THEN (n + m - 1) \div m ELSE -(n \div (-m))

\* lines 256-260; range(0, n, step) is empty for a negative step
MakeBatches(stks, mw) ==
    LET batch_size == CeilDiv(Len(stks), mw)
        count == IF batch_size > 0
                 THEN (Len(stks) + batch_size - 1) \div batch_size ELSE 0
    IN [k \in 1..count |->
          SubSeq(stks, (k - 1) * batch_size + 1,
                 Min(k * batch_size, Len(stks)))]

\* what lines 256-263 raise: the division, range() with step 0, Pool()
StartError(stks, mw) ==
    IF mw = 0 THEN "ZeroDivisionError"
    ELSE IF CeilDiv(Len(stks), mw) = 0 THEN "ValueError"
    ELSE IF mw < 1 THEN "ValueError"
    ELSE None

\* the parent goes on as soon as one batch has returned
SomeReturned(ws) == \E b \in DOMAIN ws : ws[b] # "run"

\* pool.map (line 266) and the call of line 253 return when every batch has
AllReturned(ws) == \A b \in DOMAIN ws : ws[b] # "run"

\* line 268
RECURSIVE Flatten(_)
Flatten(lists) ==
    IF lists = <<>> THEN <<>> ELSE Head(lists) \o Flatten(Tail(lists))

\* the field is set only when it is empty
SetAttrIfEmpty(info, symbol, year, v) ==
    IF symbol \in DOMAIN info /\ year \in ColumnYears /\ info[symbol][year] = None
    THEN [info EXCEPT ![symbol][year] = v] ELSE info

\* lines 274-276: only index_2020..index_2024 are columns of stock_info
SetAttr(info, symbol, year, v) ==
    IF symbol \in DOMAIN info /\ year \in ColumnYears
    THEN [info EXCEPT ![symbol][year] = v] ELSE info

\* closing the session writes what was pending
CloseSessionFlushed(table, sess) == sess

\* line 286: db.close() without a commit drops the session's pending
\* changes; the table keeps its committed rows
CloseSession(table, sess) == table

YearLists == {<<TargetYear>>, <<FutureYear, TargetYear>>,
              <<PastYear, FutureYear, TargetYear>>}

TiedOptions == {{}, {RefOrder[1]}, {RefOrder[1], RefOrder[2]}}

TiedTables ==
    {t \in [AllStocks -> TiedOptions] :
        Cardinality({x \in AllStocks : t[x] # {RefOrder[1]}}) <= 1}

InfoTables ==
    {[x \in AllStocks |-> [y \in ColumnYears |->
        IF y = TargetYear /\ x \in P THEN OldIndex ELSE None]] :
     P \in {{}, AllStocks}}

\* the (stock, year) pairs in the order lines 153 and 161 visit them
PairSeq(stks) ==
    [k \in 1..(Len(stks) * Len(years)) |->
        <<stks[((k - 1) \div Len(years)) + 1], years[((k - 1) % Len(years)) + 1]>>]

\* lines 149-206 run over the first n pairs: the result lists
\* process_stock_batch can return
RECURSIVE BatchResults(_, _)
BatchResults(pairs, n) ==
    IF n = 0 THEN {<<>>}
    ELSE IF IsFuture(pairs[n][2]) THEN BatchResults(pairs, n - 1)
    ELSE {BatchAppend(r, pairs[n][1], pairs[n][2], w) :
             r \in BatchResults(pairs, n - 1),
             w \in Outcomes(pairs[n][1], pairs[n][2])}

\* line 253: what the single-process path returns for the same subjects,
\* years and data; nothing when the subject is unknown or a lookup raises
SingleProcessResults ==
    LET stks == IF stock_symbol = None THEN <<Subject, "sh600000", "sz000001">>
                ELSE <<stock_symbol>>
        pairs == PairSeq(stks)
    IN IF stock_symbol = MissingSymbol
          \/ \E k \in DOMAIN pairs : pairs[k] \in broken /\ ~IsFuture(pairs[k][2])
       THEN {<<>>}
       ELSE BatchResults(pairs, Len(pairs))

InitBatch ==
    /\ derived_stock = EmptyDict
    /\ derived_index = EmptyDict
    /\ year_idx = 1
    /\ pc = "end"
    /\ stock_changes = EmptyDict
    /\ remaining = {}
    /\ index_symbols = <<>>
    /\ index_scores = EmptyDict
    /\ index_valid_days = EmptyDict
    /\ date = None
    /\ day_scores = EmptyDict
    /\ best_index = None
    /\ out_scores = EmptyDict
    /\ out_valid_days = EmptyDict
    /\ years \in YearLists
    /\ stock_symbol \in {None, Subject, MissingSymbol}
    /\ \/ max_workers = <<>> /\ cpu_count \in {<<>>} \cup {<<n>> : n \in 3..MaxCpu}
       \/ max_workers \in {<<n>> : n \in (-1)..MaxWorkers} /\ cpu_count = <<>>
    /\ workers = 0
    /\ stock_info \in InfoTables
    /\ session_info = stock_info
    /\ ustate = "start"
    /\ stocks = <<>>
    /\ batches = <<>>
    /\ wpos = <<>>
    /\ wstate = <<>>
    /\ wresults = <<>>
    /\ wcalls = <<>>
    /\ merged = <<>>
    /\ merge_idx = 1
    /\ tied_best \in TiedTables
    /\ broken \in {{}} \cup {{<<x, TargetYear>>} : x \in AllStocks}
    /\ results \in SingleProcessResults
    /\ OutsideIdle

single == <<derived_stock, derived_index, year_idx, pc, locals, returned, results>>
args == <<years, stock_symbol, max_workers, cpu_count, tied_best, broken>>
pool == <<batches, wpos, wstate, wresults, wcalls>>

StartPool(bs) ==
    /\ batches' = bs
    /\ wpos' = [b \in DOMAIN bs |-> <<1, 1>>]
    /\ wstate' = [b \in DOMAIN bs |-> "run"]
    /\ wresults' = [b \in DOMAIN bs |-> <<>>]
    /\ wcalls' = [b \in DOMAIN bs |-> <<>>]

\* lines 216-263: the arguments are settled, the stocks are read and the
\* batches are handed out
U_Start ==
    /\ ustate = "start"
    /\ LET mw == IF max_workers = <<>> THEN AutoWorkers(cpu_count) ELSE max_workers[1]
       IN /\ workers' = mw
          /\ IF stock_symbol # None /\ stock_symbol \notin DOMAIN stock_info
             THEN /\ ustate' = "done"
                  /\ stocks' = <<>>
                  /\ UNCHANGED pool
             ELSE \E stks \in (IF stock_symbol # None THEN {<<stock_symbol>>}
                               ELSE Perms(DOMAIN stock_info)) :
                    /\ stocks' = stks
                    /\ IF SingleProcess(stks, mw)
                       THEN ustate' = "map" /\ StartPool(<<stks>>)
                       ELSE IF StartError(stks, mw) # None
                       THEN ustate' = "raised" /\ UNCHANGED pool
                       ELSE ustate' = "map" /\ StartPool(MakeBatches(stks, mw))
    /\ UNCHANGED <<single, outside, args, stock_info, session_info, merged, merge_idx>>

Advance(b) ==
    LET pos == NextPos(wpos[b])
    IN /\ wpos' = [wpos EXCEPT ![b] = pos]
       /\ wstate' = [wstate EXCEPT ![b] =
                        IF pos[1] > Len(batches[b]) THEN "done" ELSE "run"]

\* lines 161-166: a future year is passed over
W_Skip(b) ==
    /\ ustate = "map" /\ wstate[b] = "run"
    /\ IsFuture(years[wpos[b][2]])
    /\ Advance(b)
    /\ UNCHANGED <<single, outside, args, stock_info, session_info, merged, merge_idx,
                   workers, ustate, stocks, batches, wresults, wcalls>>

\* lines 168-203: the pair is computed and its triple kept
W_Calc(b) ==
    /\ ustate = "map" /\ wstate[b] = "run"
    /\ LET symbol == batches[b][wpos[b][1]]
           year == years[wpos[b][2]]
       IN /\ ~IsFuture(year)
          /\ <<symbol, year>> \notin broken
          /\ \E best \in Outcomes(symbol, year) :
                wresults' = [wresults EXCEPT ![b] = BatchAppend(@, symbol, year, best)]
          /\ wcalls' = [wcalls EXCEPT ![b] = Append(@, <<symbol, year>>)]
    /\ Advance(b)
    /\ UNCHANGED <<single, outside, args, stock_info, session_info, merged, merge_idx,
                   workers, ustate, stocks, batches>>

\* line 169 when the store lookup raises: the finally of lines 204-205 closes
\* the session and the exception leaves process_stock_batch
W_Raise(b) ==
    /\ ustate = "map" /\ wstate[b] = "run"
    /\ LET symbol == batches[b][wpos[b][1]]
           year == years[wpos[b][2]]
       IN /\ ~IsFuture(year)
          /\ <<symbol, year>> \in broken
          /\ wcalls' = [wcalls EXCEPT ![b] = Append(@, <<symbol, year>>)]
    /\ wstate' = [wstate EXCEPT ![b] = "raised"]
    /\ UNCHANGED <<single, outside, args, stock_info, session_info, merged, merge_idx,
                   workers, ustate, stocks, batches, wpos, wresults>>

\* lines 253 and 266-268: the batches have returned; an exception of one of
\* them is raised again in the parent and leaves through lines 285-286
U_Collect ==
    /\ ustate = "map"
    /\ AllReturned(wstate)
    /\ IF \E b \in DOMAIN wstate : wstate[b] = "raised"
       THEN ustate' = "raised" /\ UNCHANGED <<merged, merge_idx>>
       ELSE ustate' = "merge" /\ merged' = Flatten(wresults) /\ merge_idx' = 1
    /\ UNCHANGED <<single, outside, args, stock_info, session_info, workers, stocks, pool>>

\* lines 273-276 for one triple
U_Write ==
    /\ ustate = "merge"
    /\ merge_idx <= Len(merged)
    /\ LET t == merged[merge_idx]
       IN session_info' = SetAttr(session_info, t[1], t[2], t[3])
    /\ merge_idx' = merge_idx + 1
    /\ UNCHANGED <<single, outside, args, stock_info, workers, ustate, stocks, pool, merged>>

\* lines 274 and 285-286: the lookup of the merge loop raises; the finally
\* closes the session and the exception leaves the function before line 279
U_WriteRaise ==
    /\ ustate = "merge"
    /\ merge_idx <= Len(merged)
    /\ stock_info' = CloseSession(stock_info, session_info)
    /\ ustate' = "raised"
    /\ UNCHANGED <<single, outside, args, session_info, workers, stocks, pool, merged, merge_idx>>

\* line 279
U_Commit ==
    /\ ustate = "merge"
    /\ merge_idx > Len(merged)
    /\ stock_info' = session_info
    /\ ustate' = "done"
    /\ UNCHANGED <<single, outside, args, session_info, workers, stocks, pool, merged, merge_idx>>

NextBatch ==
    \/ U_Start
    \/ \E b \in DOMAIN batches : W_Skip(b)
    \/ \E b \in DOMAIN batches : W_Calc(b)
    \/ \E b \in DOMAIN batches : W_Raise(b)
    \/ U_Collect
    \/ U_Write
    \/ U_WriteRaise
    \/ U_Commit

SpecBatch == InitBatch /\ [][NextBatch]_vars

\* ------------------------------------------------------------ the server
MaxHandlers == 2       \* request threads of the Flask server
MaxRequests == 3       \* POST requests that arrive in a behaviour

core == <<store, year_idx, pc, locals, returned, results>>

\* no computation is under way
CoreIdle ==
    /\ derived_stock = EmptyDict
    /\ derived_index = EmptyDict
    /\ years = <<>>
    /\ year_idx = 1
    /\ pc = "end"
    /\ stock_changes = EmptyDict
    /\ remaining = {}
    /\ index_symbols = <<>>
    /\ index_scores = EmptyDict
    /\ index_valid_days = EmptyDict
    /\ date = None
    /\ day_scores = EmptyDict
    /\ best_index = None
    /\ out_scores = EmptyDict
    /\ out_valid_days = EmptyDict
    /\ results = <<>>

\* the lock is taken whether it is held or not
CanAcquireAlways(locked) == TRUE

\* task_lock.acquire(blocking=False), lines 231, 259 and 287
CanAcquire(locked) == ~locked

\* lines 234, 262 and 290
AnyRunning(status) == \E t \in Tasks : status[t] = "running"

\* the lock is released on the success path only
ReleaseOnReturnOnly(outcome) == IF outcome = "raise" THEN "dead" ELSE "finally"

\* lines 332-333, 358-359 and 390-391: the finally follows both outcomes
AfterBody(outcome) == "finally"

not_srv == <<core, orch, rty, dly, etf>>

InitServer ==
    /\ CoreIdle
    /\ OrchIdle
    /\ RtyIdle
    /\ DlyIdle
    /\ EtfIdle
    /\ task_status = [t \in Tasks |-> "idle"]
    /\ task_lock = FALSE
    /\ handlers = [h \in 1..MaxHandlers |->
                      [pc |-> "idle", task |-> None, request |-> 0, response |-> <<>>]]
    /\ threads = <<>>
    /\ arrivals = 0

\* lines 231 and 253-254: a POST for task t arrives at request thread h
H_Request(h, t) ==
    /\ handlers[h].pc = "idle"
    /\ arrivals < MaxRequests
    /\ arrivals' = arrivals + 1
    /\ IF CanAcquire(task_lock)
       THEN /\ task_lock' = TRUE
            /\ handlers' = [handlers EXCEPT ![h] =
                               [pc |-> "check", task |-> t, request |-> arrivals',
                                response |-> <<>>]]
       ELSE /\ task_lock' = task_lock
            /\ handlers' = [handlers EXCEPT ![h] =
                               [pc |-> "idle", task |-> t, request |-> arrivals',
                                response |-> <<FALSE>>]]
    /\ UNCHANGED <<not_srv, task_status, threads>>

\* lines 234-236
H_Check(h) ==
    /\ handlers[h].pc = "check"
    /\ IF AnyRunning(task_status)
       THEN /\ task_lock' = FALSE
            /\ handlers' = [handlers EXCEPT ![h].pc = "idle", ![h].response = <<FALSE>>]
       ELSE /\ task_lock' = task_lock
            /\ handlers' = [handlers EXCEPT ![h].pc = "set"]
    /\ UNCHANGED <<not_srv, task_status, threads, arrivals>>

\* lines 239-240
H_Set(h) ==
    /\ handlers[h].pc = "set"
    /\ task_status' = [task_status EXCEPT ![handlers[h].task] = "running"]
    /\ handlers' = [handlers EXCEPT ![h].pc = "start"]
    /\ UNCHANGED <<not_srv, task_lock, threads, arrivals>>

\* lines 243-247: the task thread is started and the request answered
H_Start(h) ==
    /\ handlers[h].pc = "start"
    /\ threads' = Append(threads, [task |-> handlers[h].task, pc |-> "body", released |-> 0])
    /\ handlers' = [handlers EXCEPT ![h].pc = "idle", ![h].response = <<TRUE>>]
    /\ UNCHANGED <<not_srv, task_status, task_lock, arrivals>>

\* lines 248-252: starting the thread raises
H_StartFails(h) ==
    /\ handlers[h].pc = "start"
    /\ task_status' = [task_status EXCEPT ![handlers[h].task] = "error"]
    /\ task_lock' = FALSE
    /\ handlers' = [handlers EXCEPT ![h].pc = "idle", ![h].response = <<FALSE>>]
    /\ UNCHANGED <<not_srv, threads, arrivals>>

\* lines 314-327: the task body returns
T_Return(k) ==
    /\ threads[k].pc = "body"
    /\ task_status' = [task_status EXCEPT ![threads[k].task] = "success"]
    /\ threads' = [threads EXCEPT ![k].pc = AfterBody("return")]
    /\ UNCHANGED <<not_srv, task_lock, handlers, arrivals>>

\* lines 328-331: the task body raises
T_Raise(k) ==
    /\ threads[k].pc = "body"
    /\ task_status' = [task_status EXCEPT ![threads[k].task] = "error"]
    /\ threads' = [threads EXCEPT ![k].pc = AfterBody("raise")]
    /\ UNCHANGED <<not_srv, task_lock, handlers, arrivals>>

\* lines 332-333
T_Release(k) ==
    /\ threads[k].pc = "finally"
    /\ task_lock' = FALSE
    /\ threads' = [threads EXCEPT ![k].pc = "dead", ![k].released = @ + 1]
    /\ UNCHANGED <<not_srv, task_status, handlers, arrivals>>

ServerProgress ==
    \/ \E h \in DOMAIN handlers : H_Check(h)
    \/ \E h \in DOMAIN handlers : H_Set(h)
    \/ \E h \in DOMAIN handlers : H_Start(h)
    \/ \E h \in DOMAIN handlers : H_StartFails(h)
    \/ \E k \in DOMAIN threads : T_Return(k)
    \/ \E k \in DOMAIN threads : T_Raise(k)
    \/ \E k \in DOMAIN threads : T_Release(k)

NextServer ==
    \/ \E h \in DOMAIN handlers : \E t \in Tasks : H_Request(h, t)
    \/ ServerProgress

SpecServer == InitServer /\ [][NextServer]_vars

\* a request thread that holds the lock goes on, and a started task thread
\* runs to its end: its body returns or raises
SpecServerFair == SpecServer /\ WF_vars(ServerProgress)

\* ------------------------------------------------------ retry_with_delay
MaxRetries == 3        \* max_retries is 0..MaxRetries

InitialDelays == {5, 60}

\* the n-th failure is not seen as the last one
LastTryLate(module, n, max) == n > max

\* daily_update.py line 69 (==) and hot_rank_update.py line 74 (>=)
LastTry(module, n, max) == IF module = "daily_update" THEN n = max ELSE n >= max

\* daily_update.py line 73: random.randint(1, 30), its two ends;
\* hot_rank_update.py line 79: random.uniform(0.1, 0.5) * delay, its two
\* ends in whole seconds
Jitter(module, d) ==
    IF module = "daily_update" THEN {1, 30} ELSE {d \div 10, d \div 2}

\* daily_update.py line 76, hot_rank_update.py line 87
NextDelay(d) == d * 2

not_rty == <<core, orch, srv, dly, etf>>

InitRetry ==
    /\ CoreIdle
    /\ OrchIdle
    /\ SrvIdle
    /\ DlyIdle
    /\ EtfIdle
    /\ retry_module \in {"daily_update", "hot_rank_update"}
    /\ max_retries \in 0..MaxRetries
    /\ initial_delay \in InitialDelays
    /\ fn_outcomes \in [1..MaxRetries -> {"return", "raise"}]
    /\ retries = 0
    /\ delay = initial_delay
    /\ wrapper_pc = "call"
    /\ fn_calls = 0
    /\ slept = <<>>
    /\ wrapper_result = <<>>

\* lines 65-67: func is called and returns; the wrapper returns its value
R_Return ==
    /\ wrapper_pc = "call"
    /\ retries < max_retries
    /\ fn_outcomes[fn_calls + 1] = "return"
    /\ fn_calls' = fn_calls + 1
    /\ wrapper_result' = <<"value", fn_calls + 1>>
    /\ wrapper_pc' = "returned"
    /\ UNCHANGED <<not_rty, retry_module, max_retries, initial_delay, fn_outcomes,
                   retries, delay, slept>>

\* lines 65-70: func is called and raises
R_Raise ==
    /\ wrapper_pc = "call"
    /\ retries < max_retries
    /\ fn_outcomes[fn_calls + 1] = "raise"
    /\ fn_calls' = fn_calls + 1
    /\ retries' = retries + 1
    /\ IF LastTry(retry_module, retries', max_retries)
       THEN wrapper_pc' = "raised" /\ wrapper_result' = <<"exception", fn_calls + 1>>
       ELSE wrapper_pc' = "sleep" /\ wrapper_result' = wrapper_result
    /\ UNCHANGED <<not_rty, retry_module, max_retries, initial_delay, fn_outcomes,
                   delay, slept>>

\* lines 71-76: the wait and the doubling
R_Sleep ==
    /\ wrapper_pc = "sleep"
    /\ \E j \in Jitter(retry_module, delay) : slept' = Append(slept, <<delay, delay + j>>)
    /\ delay' = NextDelay(delay)
    /\ wrapper_pc' = "call"
    /\ UNCHANGED <<not_rty, retry_module, max_retries, initial_delay, fn_outcomes,
                   retries, fn_calls, wrapper_result>>

\* lines 64 and 77: the loop ends without a call and None is returned
R_Exhausted ==
    /\ wrapper_pc = "call"
    /\ ~(retries < max_retries)
    /\ wrapper_pc' = "none"
    /\ wrapper_result' = <<"None">>
    /\ UNCHANGED <<not_rty, retry_module, max_retries, initial_delay, fn_outcomes,
                   retries, delay, fn_calls, slept>>

NextRetry == R_Return \/ R_Raise \/ R_Sleep \/ R_Exhausted

SpecRetry == InitRetry /\ [][NextRetry]_vars

\* ------------------------------------------------------ the daily update
MaxAttempts == 3
UpdateMaxRetries == 3

\* get_latest_trading_day(), and a date before it
LatestTradingDay == 2
StaleDay == 1

\* lines 336-349 (and 323-334, 351-362, 373-394): `not latest_data_date`
\* or latest_data_date < latest_trading_day
NeedUpdate(latest) == latest = <<>> \/ latest[1] < LatestTradingDay

\* line 123
UpToDate(latest) == latest # <<>> /\ latest[1] >= LatestTradingDay

\* lines 137 and 200: `new and new > old` compares a date with None when the
\* table was empty before, which raises TypeError
CompareRaises(new, old) == new # <<>> /\ old = <<>>

not_dly == <<core, orch, srv, rty, etf>>

InitDaily ==
    /\ CoreIdle
    /\ OrchIdle
    /\ SrvIdle
    /\ RtyIdle
    /\ EtfIdle
    /\ latest_date \in [Kinds -> {<<>>, <<StaleDay>>, <<LatestTradingDay>>}]
    /\ \A k \in Kinds \ {"index"} : latest_date[k] # <<>>
    /\ attempt = 0
    /\ daily_pc = "check"
    /\ need_update = [k \in Kinds |-> FALSE]
    /\ stock_thread = "None"
    /\ stock_threads = [t \in ThreadStates |-> 0]
    /\ pre_update_date = <<>>
    /\ index_retries = 0
    /\ index_errors = {}
    /\ daily_retries = 0

\* lines 166-178: the four checks; return when nothing is to do
D_Check ==
    /\ daily_pc = "check"
    /\ need_update' = [k \in Kinds |-> NeedUpdate(latest_date[k])]
    /\ stock_thread' = "None"
    /\ stock_threads' = IF stock_thread = "None" THEN stock_threads
                        ELSE [stock_threads EXCEPT ![stock_thread] = @ + 1]
    /\ daily_pc' = IF \E k \in Kinds : need_update'[k] THEN "stock" ELSE "returned"
    /\ UNCHANGED <<not_dly, daily_retries, latest_date, attempt, pre_update_date,
                   index_retries, index_errors>>

\* lines 179-182
D_StartStock ==
    /\ daily_pc = "stock"
    /\ stock_thread' = IF need_update["stock"] THEN "running" ELSE stock_thread
    /\ daily_pc' = "index"
    /\ UNCHANGED <<not_dly, daily_retries, latest_date, attempt, need_update, stock_threads,
                   pre_update_date, index_retries, index_errors>>

\* lines 185-192
D_IndexBegin ==
    /\ daily_pc = "index"
    /\ IF need_update["index"]
       THEN /\ pre_update_date' = latest_date["index"]
            /\ index_retries' = 0
            /\ index_errors' = {}
            /\ daily_pc' = "index_call"
       ELSE /\ UNCHANGED <<pre_update_date, index_retries, index_errors>>
            /\ daily_pc' = "etf"
    /\ UNCHANGED <<not_dly, daily_retries, latest_date, attempt, need_update, stock_thread,
                   stock_threads>>

\* line 195, lines 105-140: one call of update_index_data that returns:
\* nothing to do, or the download succeeds and the dates compare
D_IndexCallReturns ==
    /\ daily_pc = "index_call"
    /\ \/ UpToDate(latest_date["index"]) /\ UNCHANGED latest_date
       \/ /\ ~UpToDate(latest_date["index"])
          /\ ~CompareRaises(<<LatestTradingDay>>, latest_date["index"])
          /\ latest_date' = [latest_date EXCEPT !["index"] = <<LatestTradingDay>>]
    /\ daily_pc' = "index_post"
    /\ UNCHANGED <<not_dly, daily_retries, attempt, need_update, stock_thread, stock_threads,
                   pre_update_date, index_retries, index_errors>>

\* line 195, lines 105-143 and 64-76: one call of update_index_data that
\* raises, because the download fails or because line 137 does after a
\* download that succeeded; the wrapper calls again or gives up
D_IndexCallRaises ==
    /\ daily_pc = "index_call"
    /\ ~UpToDate(latest_date["index"])
    /\ \/ /\ index_errors' = index_errors \cup {"DownloadError"}
          /\ UNCHANGED latest_date
       \/ /\ CompareRaises(<<LatestTradingDay>>, latest_date["index"])
          /\ index_errors' = index_errors \cup {"TypeError"}
          /\ latest_date' = [latest_date EXCEPT !["index"] = <<LatestTradingDay>>]
    /\ index_retries' = index_retries + 1
    /\ daily_pc' = IF LastTry("daily_update", index_retries', UpdateMaxRetries)
                   THEN "except" ELSE "index_call"
    /\ UNCHANGED <<not_dly, daily_retries, attempt, need_update, stock_thread, stock_threads,
                   pre_update_date>>

\* lines 198-209
D_IndexPost ==
    /\ daily_pc = "index_post"
    /\ IF CompareRaises(latest_date["index"], pre_update_date)
       THEN /\ index_errors' = index_errors \cup {"TypeError"}
            /\ daily_pc' = "except"
       ELSE /\ index_errors' = index_errors
            /\ daily_pc' = "etf"
    /\ UNCHANGED <<not_dly, daily_retries, latest_date, attempt, need_update, stock_thread,
                   stock_threads, pre_update_date, index_retries>>

\* lines 211-214: not needed, or update_etf_data returns
D_Etf ==
    /\ daily_pc = "etf"
    /\ latest_date' = IF need_update["etf"]
                      THEN [latest_date EXCEPT !["etf"] = <<LatestTradingDay>>]
                      ELSE latest_date
    /\ daily_pc' = "hot_rank"
    /\ UNCHANGED <<not_dly, daily_retries, attempt, need_update, stock_thread, stock_threads,
                   pre_update_date, index_retries, index_errors>>

\* line 213: update_etf_data raises after its retries
D_EtfRaises ==
    /\ daily_pc = "etf"
    /\ need_update["etf"]
    /\ daily_pc' = "except"
    /\ UNCHANGED <<not_dly, daily_retries, latest_date, attempt, need_update, stock_thread,
                   stock_threads, pre_update_date, index_retries, index_errors>>

\* lines 216-219: not needed, or update_hot_rank_data returns
D_HotRank ==
    /\ daily_pc = "hot_rank"
    /\ latest_date' = IF need_update["hot_rank"]
                      THEN [latest_date EXCEPT !["hot_rank"] = <<LatestTradingDay>>]
                      ELSE latest_date
    /\ daily_pc' = "join"
    /\ UNCHANGED <<not_dly, daily_retries, attempt, need_update, stock_thread, stock_threads,
                   pre_update_date, index_retries, index_errors>>

\* line 218: update_hot_rank_data raises after its retries
D_HotRankRaises ==
    /\ daily_pc = "hot_rank"
    /\ need_update["hot_rank"]
    /\ daily_pc' = "except"
    /\ UNCHANGED <<not_dly, daily_retries, latest_date, attempt, need_update, stock_thread,
                   stock_threads, pre_update_date, index_retries, index_errors>>

\* lines 222-227: join returns when the thread has ended, however it ended
D_Join ==
    /\ daily_pc = "join"
    /\ stock_thread # "running"
    /\ daily_pc' = "returned"
    /\ UNCHANGED <<not_dly, daily_retries, latest_date, attempt, need_update, stock_thread,
                   stock_threads, pre_update_date, index_retries, index_errors>>

\* lines 229-237
D_Except ==
    /\ daily_pc = "except"
    /\ IF attempt < MaxAttempts - 1
       THEN attempt' = attempt + 1 /\ daily_pc' = "check"
       ELSE attempt' = attempt /\ daily_pc' = "wrapper"
    /\ UNCHANGED <<not_dly, daily_retries, latest_date, need_update, stock_thread, stock_threads,
                   pre_update_date, index_retries, index_errors>>

\* lines 158 and 64-76: run_daily_update is itself wrapped by
\* retry_with_delay; the wrapper calls it again or gives up
D_Wrapper ==
    /\ daily_pc = "wrapper"
    /\ daily_retries' = daily_retries + 1
    /\ IF LastTry("daily_update", daily_retries', UpdateMaxRetries)
       THEN attempt' = attempt /\ daily_pc' = "raised"
       ELSE attempt' = 0 /\ daily_pc' = "check"
    /\ UNCHANGED <<not_dly, latest_date, need_update, stock_thread, stock_threads,
                   pre_update_date, index_retries, index_errors>>

\* one stock thread that runs ends in state `end`: the attempt's own or one
\* that an earlier attempt left running
EndThread(end) ==
    \/ /\ stock_thread = "running"
       /\ stock_thread' = end
       /\ UNCHANGED stock_threads
    \/ /\ stock_threads["running"] > 0
       /\ stock_threads' = [stock_threads EXCEPT !["running"] = @ - 1, ![end] = @ + 1]
       /\ UNCHANGED stock_thread

\* lines 98-103 in the thread: update_stock_data returns
S_Done ==
    /\ EndThread("done")
    /\ latest_date' = [latest_date EXCEPT !["stock"] = <<LatestTradingDay>>]
    /\ UNCHANGED <<not_dly, daily_retries, attempt, daily_pc, need_update,
                   pre_update_date, index_retries, index_errors>>

\* lines 98-103 in the thread: update_stock_data raises after its retries;
\* the exception ends the thread and goes nowhere else
S_Fail ==
    /\ EndThread("failed")
    /\ UNCHANGED <<not_dly, daily_retries, latest_date, attempt, daily_pc, need_update,
                   pre_update_date, index_retries, index_errors>>

NextDaily ==
    \/ D_Check
    \/ D_StartStock
    \/ D_IndexBegin
    \/ D_IndexCallReturns
    \/ D_IndexCallRaises
    \/ D_IndexPost
    \/ D_Etf
    \/ D_EtfRaises
    \/ D_HotRank
    \/ D_HotRankRaises
    \/ D_Join
    \/ D_Except
    \/ D_Wrapper
    \/ S_Done
    \/ S_Fail

SpecDaily == InitDaily /\ [][NextDaily]_vars

\* ------------------------------------------- save_etf_daily_data_to_db
MaxSaves == 2
MaxRows == 2

EtfSymbols == {"510300", "159915"}
RawDates == {"2024-01-02", "20240102", "2024-01-03", "n/a"}
Closes == {10, 11}
NaT == 0

\* line 144-145: pd.to_datetime(row["日期"], errors='coerce').date(); two
\* spellings of a day give the same date, what is no date gives NaT
ToDate(raw) ==
    CASE raw = "2024-01-02" -> 2
      [] raw = "20240102" -> 2
      [] raw = "2024-01-03" -> 3
      [] OTHER -> NaT

Frames == UNION {[1..n -> [date : RawDates, close : Closes]] : n \in 0..MaxRows}

\* line 151: the rows filter_by(symbol=symbol, date=row_date) selects, and
\* first() of them (0 for None)
ExistingAnySymbol(rows, symbol, row_date) ==
    LET hits == {i \in DOMAIN rows : rows[i].date = row_date}
    IN IF hits = {} THEN 0 ELSE CHOOSE i \in hits : \A j \in hits : i <= j
Existing(rows, symbol, row_date) ==
    LET hits == {i \in DOMAIN rows : rows[i].symbol = symbol /\ rows[i].date = row_date}
    IN IF hits = {} THEN 0 ELSE CHOOSE i \in hits : \A j \in hits : i <= j

\* models/etf.py line 31: PrimaryKeyConstraint('symbol', 'date')
PrimaryKeyHolds(rows) ==
    \A i, j \in DOMAIN rows :
        (rows[i].symbol = rows[j].symbol /\ rows[i].date = rows[j].date) => i = j

not_etf == <<core, orch, srv, rty, dly>>

InitETF ==
    /\ CoreIdle
    /\ OrchIdle
    /\ SrvIdle
    /\ RtyIdle
    /\ DlyIdle
    /\ etf_autoflush \in BOOLEAN
    /\ etf_store = <<>>
    /\ etf_session = <<>>
    /\ etf_pending = <<>>
    /\ etf_pc = "idle"
    /\ etf_symbol = None
    /\ etf_data = <<>>
    /\ etf_row = 0
    /\ etf_before = <<>>
    /\ etf_calls = 0
    /\ etf_log = <<>>

\* lines 135-139: a call begins with a session of its own
E_Begin(symbol, data) ==
    /\ etf_pc \in {"idle", "raised"}
    /\ etf_calls < MaxSaves
    /\ etf_calls' = etf_calls + 1
    /\ etf_symbol' = symbol
    /\ etf_data' = data
    /\ etf_row' = 1
    /\ etf_before' = etf_store
    /\ etf_session' = etf_store
    /\ etf_pending' = <<>>
    /\ etf_pc' = "rows"
    /\ UNCHANGED <<not_etf, etf_autoflush, etf_store, etf_log>>

\* lines 141-183: one row of the loop: skipped, updated or added
E_Row ==
    /\ etf_pc = "rows"
    /\ etf_row <= Len(etf_data)
    /\ LET row == etf_data[etf_row]
           row_date == ToDate(row.date)
           flushed == IF etf_autoflush THEN etf_session \o etf_pending ELSE etf_session
           waiting == IF etf_autoflush THEN <<>> ELSE etf_pending
           existing == Existing(flushed, etf_symbol, row_date)
       IN IF row_date = NaT
          THEN UNCHANGED <<etf_session, etf_pending>>
          ELSE IF existing # 0
               THEN /\ etf_session' = [flushed EXCEPT ![existing].close = row.close]
                    /\ etf_pending' = waiting
               ELSE /\ etf_session' = flushed
                    /\ etf_pending' = Append(waiting, [symbol |-> etf_symbol,
                                                       date |-> row_date,
                                                       close |-> row.close])
    /\ etf_row' = etf_row + 1
    /\ UNCHANGED <<not_etf, etf_autoflush, etf_store, etf_pc, etf_symbol, etf_data,
                   etf_before, etf_calls, etf_log>>

\* lines 186-189: something in the loop raises; the session is rolled back
E_RowRaises ==
    /\ etf_pc = "rows"
    /\ etf_row <= Len(etf_data)
    /\ etf_session' = <<>>
    /\ etf_pending' = <<>>
    /\ etf_pc' = "raised"
    /\ UNCHANGED <<not_etf, etf_autoflush, etf_store, etf_symbol, etf_data, etf_row,
                   etf_before, etf_calls, etf_log>>

\* line 184: db.commit() flushes what is pending and commits, or the
\* primary key refuses the flush and lines 186-189 roll back
E_Commit ==
    /\ etf_pc = "rows"
    /\ etf_row > Len(etf_data)
    /\ LET rows == etf_session \o etf_pending
       IN IF PrimaryKeyHolds(rows)
          THEN /\ etf_store' = rows
               /\ etf_log' = Append(etf_log, [symbol |-> etf_symbol, data |-> etf_data,
                                              store |-> rows])
               /\ etf_pc' = "idle"
          ELSE /\ UNCHANGED <<etf_store, etf_log>>
               /\ etf_pc' = "raised"
    /\ etf_session' = <<>>
    /\ etf_pending' = <<>>
    /\ UNCHANGED <<not_etf, etf_autoflush, etf_symbol, etf_data, etf_row, etf_before,
                   etf_calls>>

\* lines 184-189: db.commit() fails for another reason (the connection)
E_CommitRaises ==
    /\ etf_pc = "rows"
    /\ etf_row > Len(etf_data)
    /\ etf_session' = <<>>
    /\ etf_pending' = <<>>
    /\ etf_pc' = "raised"
    /\ UNCHANGED <<not_etf, etf_autoflush, etf_store, etf_symbol, etf_data, etf_row,
                   etf_before, etf_calls, etf_log>>

NextETF ==
    \/ \E symbol \in EtfSymbols, data \in Frames : E_Begin(symbol, data)
    \/ E_Row
    \/ E_RowRaises
    \/ E_Commit
    \/ E_CommitRaises

SpecETF == InitETF /\ [][NextETF]_vars

\* ------------------------------------------------- reference definitions
\* what the data say, computed without the code's sort and scan
SubjectValid(d) == d \in DOMAIN derived_stock /\ InYear(d) /\ derived_stock[d] # <<>>

SubjectValidDays == {d \in Dates : SubjectValid(d)}

RefValid(s, d) == <<s, d>> \in DOMAIN derived_index /\ derived_index[<<s, d>>] # <<>>

Valued(d) == {s \in Refs : RefValid(s, d)}

Diff(s, d) == Abs(derived_index[<<s, d>>][1] - derived_stock[d][1])

CompetitionRank(s, d) == 1 + Cardinality({q \in Valued(d) : Diff(q, d) < Diff(s, d)})

RECURSIVE SumRanks(_, _)
SumRanks(s, ds) ==
    IF ds = {} THEN 0
    ELSE LET d == CHOOSE x \in ds : TRUE
         IN (IF s \in Valued(d) THEN CompetitionRank(s, d) ELSE 0)
                + SumRanks(s, ds \ {d})

CountDays(s, ds) == Cardinality({d \in ds : s \in Valued(d)})

NoSharedValidDay == \A d \in SubjectValidDays : Valued(d) = {}

DayDone == pc = "loop" /\ date # None
Visited == DOMAIN stock_changes \ remaining
Won == pc = "ret" /\ best_index # None

\* the eligible symbols of the returned tables that are minimal in average
Eligible == {s \in DOMAIN out_scores : out_valid_days[s] > 0}
TiedBest ==
    {s \in Eligible : \A r \in Eligible :
        out_scores[s] * out_valid_days[r] <= out_scores[r] * out_valid_days[s]}

FirstOf(ord, S) == ord[CHOOSE i \in DOMAIN ord : ord[i] \in S /\ \A j \in 1..(i - 1) : ord[j] \notin S]

\* ---------------------------------------------------------------- claims

\* C1: on every processed day the references with a return that day are
\* ranked by |reference_return - subject_return| with competition ranking:
\* a reference's score is 1 + the number of references of the day with a
\* strictly smaller difference (the position of the first of its tie group).
C1_CompetitionRanking ==
    DayDone =>
        /\ DOMAIN day_scores = Valued(date)
        /\ \A s \in Valued(date) : day_scores[s] = CompetitionRank(s, date)

\* a day ranked 1, 2, 2: two references tie behind a closer one
C1_Witness ==
    /\ DayDone
    /\ \E a, b, c \in DOMAIN day_scores :
        /\ a # b /\ a # c /\ b # c
        /\ day_scores[a] = 1 /\ day_scores[b] = 2 /\ day_scores[c] = 2

\* C2: a returned winner has a valid day and its average score
\* (cumulative sum / valid days) is at most that of every reference with a
\* valid day.
C2_WinnerMinimalAverage ==
    Won =>
        /\ best_index \in DOMAIN out_scores
        /\ out_valid_days[best_index] > 0
        /\ \A r \in DOMAIN out_scores : out_valid_days[r] > 0 =>
              out_scores[best_index] * out_valid_days[r]
                  <= out_scores[r] * out_valid_days[best_index]

\* the winner has the larger cumulative sum but the smaller average
C2_Witness ==
    /\ Won
    /\ \E r \in DOMAIN out_scores :
        /\ out_valid_days[r] > 0
        /\ out_scores[r] < out_scores[best_index]
        /\ out_scores[best_index] * out_valid_days[r]
              < out_scores[r] * out_valid_days[best_index]

\* C3: a reference whose return is NULL on the processed day is not in the
\* day's ranking, keeps its cumulative sum and its valid-day count, and the
\* references with a value are ranked among themselves only.
C3_NullRefNotRanked ==
    [][(pc = "loop" /\ remaining' # remaining) =>
        /\ \A s \in DOMAIN index_scores :
              ~RefValid(s, date') =>
                  /\ s \notin DOMAIN day_scores'
                  /\ index_scores'[s] = index_scores[s]
                  /\ index_valid_days'[s] = index_valid_days[s]
        /\ \A q \in DOMAIN day_scores' :
              /\ RefValid(q, date')
              /\ day_scores'[q] =
                    1 + Cardinality({p \in DOMAIN day_scores' :
                                        Diff(p, date') < Diff(q, date')})
      ]_vars

\* a day on which one known reference is NULL and two others are ranked
C3_Witness ==
    /\ DayDone
    /\ \E s \in DOMAIN index_scores :
        /\ <<s, date>> \in DOMAIN derived_index
        /\ derived_index[<<s, date>>] = <<>>
    /\ Cardinality(DOMAIN day_scores) = 2

\* C4: a step of the day loop changes a reference's cumulative sum or
\* valid-day count only for a date of the requested year on which both the
\* subject and that reference have a non-null return.
C4_OnlySharedValidDays ==
    [][(pc = "loop" /\ pc' = "loop") =>
        \A s \in DOMAIN index_scores :
            (index_scores'[s] # index_scores[s]
                \/ index_valid_days'[s] # index_valid_days[s]) =>
                    SubjectValid(date') /\ RefValid(s, date')
      ]_vars

\* the loop is over, a reference was counted, and the subject has a NULL row
\* in the year besides its row outside the year
C4_Witness ==
    /\ pc = "loop" /\ remaining = {}
    /\ \E s \in DOMAIN index_valid_days : index_valid_days[s] = 1
    /\ \E d \in DOMAIN derived_stock : InYear(d) /\ derived_stock[d] = <<>>
    /\ \E d \in DOMAIN derived_stock : ~InYear(d)

\* C5: during the aggregation and in the returned tables no reference's
\* valid-day count exceeds the number of days of the year on which the
\* subject has a non-null return.
C5_ValidDaysBounded ==
    /\ \A s \in DOMAIN index_valid_days :
          index_valid_days[s] <= Cardinality(SubjectValidDays)
    /\ \A s \in DOMAIN out_valid_days :
          out_valid_days[s] <= Cardinality(SubjectValidDays)

\* returned tables in which one reference reaches the bound and one stays below
C5_Witness ==
    /\ Won
    /\ Cardinality(SubjectValidDays) = 2
    /\ \E s, r \in DOMAIN out_valid_days :
          out_valid_days[s] = 2 /\ out_valid_days[r] = 1

\* C6: a reference of the score table without any valid day is never the
\* returned winner.
C6_ZeroDayRefNeverWins ==
    pc = "ret" =>
        \A s \in DOMAIN out_scores : out_valid_days[s] = 0 => best_index # s

\* a winner is returned while another reference sits in the table with sum 0
\* and no valid day
C6_Witness ==
    /\ Won
    /\ \E s \in DOMAIN out_scores : out_valid_days[s] = 0 /\ out_scores[s] = 0

\* C7: when no reference shares a valid day with the subject in the year, the
\* call returns None with empty tables and the batch records no triple.
C7_NoMatchOutcome ==
    NoSharedValidDay =>
        /\ pc = "ret" =>
              best_index = None /\ out_scores = EmptyDict /\ out_valid_days = EmptyDict
        /\ results = <<>>

\* the batch has ended without a triple for a subject with a valid day and a
\* reference universe that is NULL on it
C7_Witness ==
    /\ pc = "end"
    /\ results = <<>>
    /\ SubjectValidDays # {}
    /\ DistinctSymbols # {}
    /\ NoSharedValidDay

\* C8: the winner among references tied on the minimum average is the first
\* of them in one enumeration order of the references that is the same for
\* every call on the same data.
C8_StableTieBreak ==
    Won =>
        \E ord \in Perms(DOMAIN out_scores) :
            /\ best_index = FirstOf(ord, TiedBest)
            /\ \A i \in DOMAIN results : results[i][3] = FirstOf(ord, TiedBest)

\* C9: repeated calls for the same subject and year on the same data return
\* the same winner.
C9_SameWinnerOnRepeat ==
    \A i, j \in DOMAIN results : results[i] = results[j]

\* C10: the cumulative sums and valid-day counts depend only on the set of
\* days visited so far, not on the order of the visits, and a day's scores
\* depend only on the day's data, not on the order of its rows.
C10_OrderIndependent ==
    /\ pc = "loop" =>
          \A s \in DOMAIN index_scores :
              /\ index_scores[s] = SumRanks(s, Visited)
              /\ index_valid_days[s] = CountDays(s, Visited)
    /\ DayDone =>
          day_scores = [s \in Valued(date) |-> CompetitionRank(s, date)]
    /\ Won =>
          \A s \in DOMAIN out_scores :
              /\ out_scores[s] = SumRanks(s, SubjectValidDays)
              /\ out_valid_days[s] = CountDays(s, SubjectValidDays)

\* both days of the year were visited and one reference was ranked on both,
\* with a tie on the last one
C10_Witness ==
    /\ pc = "loop" /\ remaining = {}
    /\ Cardinality(Visited) = 2
    /\ \E s \in DOMAIN index_valid_days : index_valid_days[s] = 2
    /\ \E a, b \in DOMAIN day_scores : a # b /\ day_scores[a] = day_scores[b]

C19_EmptyDaySkipped ==
    [][(pc = "loop" /\ remaining' # remaining /\ Valued(date') = {}) =>
        /\ index_scores' = index_scores
        /\ index_valid_days' = index_valid_days
        /\ day_scores' = EmptyDict
        /\ pc' = "loop"
        /\ remaining' = remaining \ {date'}
      ]_vars

\* a day without any valued reference was skipped first, and the day after it
\* was still ranked
C19_Witness ==
    /\ DayDone
    /\ remaining = {}
    /\ day_scores # EmptyDict
    /\ \E d \in DOMAIN stock_changes : d # date /\ Valued(d) = {}
    /\ DistinctSymbols # {}

\* ------------------------------------------------- claims on the update run

\* the pairs process_stock_batch has to compute for a batch: every subject of
\* the batch with every requested year that is not after the current year
DuePairs(b) ==
    {<<batches[b][i], years[j]>> :
        i \in DOMAIN batches[b],
        j \in {k \in DOMAIN years : years[k] <= CurrentYear}}

CalledPairs(b) == {wcalls[b][i] : i \in DOMAIN wcalls[b]}

\* C11: a requested year after the current calendar year is skipped: the
\* store is never queried for such a pair, no triple carries such a year, the
\* skip raises nothing (a batch only raises on a pair whose lookup raises),
\* and a batch that has returned has computed every other pair, the years
\* listed after the future year included.
C11_FutureYearSkipped ==
    \A b \in DOMAIN batches :
        /\ \A i \in DOMAIN wcalls[b] : wcalls[b][i][2] <= CurrentYear
        /\ \A i \in DOMAIN wresults[b] : wresults[b][i][2] <= CurrentYear
        /\ wstate[b] = "raised" => wcalls[b][Len(wcalls[b])] \in broken
        /\ wstate[b] = "done" =>
              /\ CalledPairs(b) = DuePairs(b)
              /\ Len(wcalls[b]) = Cardinality(DuePairs(b))

C11_Witness ==
    /\ years[1] = FutureYear
    /\ \E b \in DOMAIN batches :
          /\ wstate[b] = "done"
          /\ Len(batches[b]) > 1
          /\ \A i \in DOMAIN batches[b] : <<batches[b][i], TargetYear>> \in CalledPairs(b)

\* C12: a pair whose store lookup raises is contained: the exception leaves
\* neither process_stock_batch nor update_stock_index_correlation, and the
\* batch goes on to its other pairs.
C12_FailingPairContained ==
    /\ \A b \in DOMAIN wstate : wstate[b] # "raised"
    /\ (ustate = "raised" => batches = <<>>)

Requested == {stocks[i] : i \in DOMAIN stocks}

\* C13: a stored winning-reference field changes only to the winner of a
\* triple computed in this run for that subject and year; a pair with no
\* triple (no winner, future year, subject not requested) keeps the value it
\* had, in the session and in the table, and is never cleared.
C13_NoTripleKeepsField ==
    [][\A s \in AllStocks, y \in ColumnYears :
          \A info \in {<<stock_info, stock_info'>>, <<session_info, session_info'>>} :
              info[2][s][y] # info[1][s][y] =>
                  /\ s \in Requested
                  /\ y <= CurrentYear
                  /\ info[2][s][y] \in Outcomes(s, y) \ {None}
                  /\ \E i \in DOMAIN merged :
                        merged[i] = <<s, y, info[2][s][y]>>]_vars

C13_Witness ==
    /\ ustate = "done"
    /\ FutureYear \in {years[j] : j \in DOMAIN years}
    /\ \E s \in Requested :
          /\ Outcomes(s, TargetYear) = {None}
          /\ stock_info[s][TargetYear] = OldIndex
    /\ \E s \in Requested : stock_info[s][TargetYear] \in Refs

\* the winner of the last triple of the run for a subject and year
LastWinner(s, y) ==
    LET hits == {i \in DOMAIN merged : merged[i][1] = s /\ merged[i][2] = y}
    IN merged[CHOOSE i \in hits : \A k \in hits : k <= i][3]

C15_AtLeastOneWorker ==
    ustate # "start" =>
        /\ workers >= 1
        /\ ~(ustate = "raised" /\ batches = <<>>)
        /\ (max_workers = <<>> /\ cpu_count # <<>>) =>
              workers <= Max(1, cpu_count[1] - ReservedCores)

\* C16: the stored fields have one writer: no step of a worker batch changes
\* them; the parent changes its session, one triple at a time, and commits
\* only after every batch has returned; and the commit carries every triple
\* of the run, so no update is lost.
C16_SingleWriter ==
    [][/\ (session_info' # session_info \/ stock_info' # stock_info) =>
            /\ ustate = "merge"
            /\ \A b \in DOMAIN wstate : wstate[b] = "done"
            /\ pool' = pool
       /\ session_info' # session_info =>
            /\ merge_idx' = merge_idx + 1
            /\ session_info' =
                  SetAttr(session_info, merged[merge_idx][1],
                          merged[merge_idx][2], merged[merge_idx][3])
       /\ stock_info' # stock_info =>
            \A i \in DOMAIN merged :
                merged[i][2] \in ColumnYears =>
                    stock_info'[merged[i][1]][merged[i][2]] = merged[i][3]]_vars

C16_Witness ==
    /\ ustate = "merge"
    /\ Len(batches) > 1
    /\ session_info # stock_info
    /\ \E i \in 1..(merge_idx - 1) : \E k \in 1..(merge_idx - 1) :
          i < k /\ merged[i][1] = merged[k][1]

\* C18: the run reports an outcome for every requested pair: once the
\* batches have been collected, the result list has an entry for every
\* requested subject and year, from which winner, no match and failure can
\* be told apart.
C18_OutcomePerPair ==
    (ustate \in {"merge", "done"} /\ batches # <<>>) =>
        \A s \in Requested : \A j \in DOMAIN years :
            \E i \in DOMAIN merged : merged[i][1] = s /\ merged[i][2] = years[j]

RECURSIVE Count(_, _)
Count(seq, x) ==
    IF seq = <<>> THEN 0
    ELSE (IF Head(seq) = x THEN 1 ELSE 0) + Count(Tail(seq), x)

\* C20: whenever the multi-process path is taken, batches are formed that
\* partition the subject list: every subject is in exactly one batch, no
\* batch is empty, there are at most max_workers batches, and a batch that
\* has returned has computed each of its pairs exactly once.
C20_BatchesPartition ==
    (ustate # "start" /\ stocks # <<>> /\ ~SingleProcess(stocks, workers)) =>
        /\ ustate # "raised" \/ batches # <<>>
        /\ Flatten(batches) = stocks
        /\ \A b \in DOMAIN batches : batches[b] # <<>>
        /\ Len(batches) <= workers
        /\ \A b \in DOMAIN batches :
              /\ \A p \in CalledPairs(b) : Count(wcalls[b], p) = 1
              /\ \A c \in DOMAIN batches : c # b => CalledPairs(b) \cap CalledPairs(c) = {}

\* ----------------------------------------- further claims on a computation

\* C23: in the tables returned with a winner every reference has
\* valid days <= rank sum <= valid days * N, N the number of references; and
\* on every ranked day each score is between 1 and the number of references
\* ranked that day and some reference has score 1.
C23_RankSumBounds ==
    /\ Won =>
          \A s \in DOMAIN out_scores :
              /\ out_valid_days[s] <= out_scores[s]
              /\ out_scores[s] <= out_valid_days[s] * Cardinality(DOMAIN out_scores)
    /\ day_scores # EmptyDict =>
          /\ \E s \in DOMAIN day_scores : day_scores[s] = 1
          /\ \A s \in DOMAIN day_scores :
                1 <= day_scores[s] /\ day_scores[s] <= Cardinality(DOMAIN day_scores)

C23_Witness ==
    /\ Won
    /\ \E s \in DOMAIN out_scores :
          out_valid_days[s] >= 2 /\ out_scores[s] > out_valid_days[s]
    /\ \E s \in DOMAIN out_scores :
          out_valid_days[s] >= 1 /\ out_scores[s] = out_valid_days[s]
    /\ \E s \in DOMAIN out_scores :
          out_valid_days[s] >= 1
          /\ out_scores[s] = out_valid_days[s] * Cardinality(DOMAIN out_scores)

\* ------------------------------------------ further claims on the update run

\* C21: for the same subjects, years and data the multi-process path gives
\* the same set of (subject, year, winner) triples as the single-process
\* path (results), and the same stored fields after the commit.
C21_SameAsSingleProcess ==
    (ustate \in {"merge", "done"} /\ ~SingleProcess(stocks, workers)) =>
        /\ {merged[i] : i \in DOMAIN merged} = {results[i] : i \in DOMAIN results}
        /\ ustate = "done" =>
              \A i \in DOMAIN results :
                  results[i][2] \in ColumnYears =>
                      stock_info[results[i][1]][results[i][2]] = results[i][3]

\* C22: the write-back is all or nothing: the stored table changes only in
\* the one commit that follows the last triple of the merge loop, and then
\* to the whole session; a run that raises, in the computation or in the
\* merge loop, leaves every stored field as it was (no winner of the run is
\* in the table).
C22_AllOrNothing ==
    [][/\ stock_info' # stock_info =>
            /\ ustate = "merge" /\ ustate' = "done"
            /\ merge_idx > Len(merged)
            /\ stock_info' = session_info
       /\ ustate' = "raised" =>
            /\ stock_info' = stock_info
            /\ \A s \in AllStocks, y \in ColumnYears : stock_info'[s][y] \notin Refs]_vars

C22_Witness ==
    /\ ustate = "raised"
    /\ merge_idx > 1
    /\ session_info # stock_info
    /\ Len(batches) > 1

\* ------------------------------------------------- claims on the server

Running(status) == {t \in Tasks : status[t] = "running"}

\* C24: under every interleaving of the three POST handlers and the task
\* threads at most one task has status 'running'; a request that arrives
\* while a task is running is answered with success False in that step and
\* changes no task's status, starts no thread and leaves the lock alone.
C24_OneTaskRunning ==
    [][/\ Cardinality(Running(task_status)) <= 1
       /\ Cardinality(Running(task_status')) <= 1
       /\ (arrivals' # arrivals /\ AnyRunning(task_status)) =>
             /\ \E h \in DOMAIN handlers :
                   /\ handlers'[h].request = arrivals'
                   /\ handlers'[h].pc = "idle"
                   /\ handlers'[h].response = <<FALSE>>
             /\ task_status' = task_status
             /\ threads' = threads
             /\ task_lock' = task_lock]_vars

C24_Witness ==
    /\ arrivals >= 2
    /\ \E k \in DOMAIN threads :
          /\ threads[k].pc = "body"
          /\ task_status[threads[k].task] = "running"
          /\ \E h \in DOMAIN handlers :
                /\ handlers[h].pc = "idle"
                /\ handlers[h].response = <<FALSE>>
                /\ handlers[h].task # threads[k].task
    /\ \E k \in DOMAIN threads : threads[k].pc = "dead"

\* C25: every started task thread comes to its end, having left 'running'
\* for 'success' or 'error' and released task_lock exactly once, while it
\* was held, whether its body returned or raised; whenever task_lock is free
\* no task is 'running', so the check of a later request lets it start.
C25_TaskEndsAndReleases ==
    /\ [](~task_lock => ~AnyRunning(task_status))
    /\ [](\A k \in DOMAIN threads :
             /\ threads[k].released <= 1
             /\ threads[k].pc = "dead" => threads[k].released = 1)
    /\ [][\A k \in DOMAIN threads :
             /\ threads'[k].released # threads[k].released => task_lock
             /\ (threads[k].pc = "body" /\ threads'[k].pc # "body") =>
                   task_status'[threads[k].task] \in {"success", "error"}]_vars
    /\ \A t \in Tasks :
          (task_status[t] = "running") ~> (task_status[t] \in {"success", "error"})
    /\ \A k \in 1..(MaxRequests + 1) :
          (k \in DOMAIN threads) ~> (k \in DOMAIN threads /\ threads[k].pc = "dead")

C25_Witness ==
    /\ ~task_lock
    /\ \E k \in DOMAIN threads : \E j \in DOMAIN threads :
          /\ threads[k].pc = "dead" /\ task_status[threads[k].task] = "error"
          /\ threads[j].pc = "dead" /\ task_status[threads[j].task] = "success"
    /\ \E h \in DOMAIN handlers : handlers[h].response = <<TRUE>>

\* ------------------------------------------------- claims on the retries

RECURSIVE Pow2(_)
Pow2(n) == IF n = 0 THEN 1 ELSE 2 * Pow2(n - 1)

\* C26: with max_retries = n >= 1 the wrapped function is called at most n
\* times; the wrapper returns the value of the first call that returns and
\* calls no more; after the i-th failed call that is not the n-th it waits
\* at least the base delay initial_delay * 2^(i-1); and when the n-th call
\* has failed it raises that call's exception.
C26_RetryAtMostN ==
    max_retries >= 1 =>
        /\ fn_calls <= max_retries
        /\ wrapper_pc # "none"
        /\ \A k \in 1..fn_calls :
              fn_outcomes[k] = (IF k = fn_calls /\ wrapper_pc = "returned"
                                THEN "return" ELSE "raise")
        /\ wrapper_pc = "returned" => wrapper_result = <<"value", fn_calls>>
        /\ wrapper_pc = "raised" =>
              fn_calls = max_retries /\ wrapper_result = <<"exception", max_retries>>
        /\ wrapper_pc \notin {"returned", "raised"} => wrapper_result = <<>>
        /\ Len(slept) = (IF wrapper_pc \in {"call", "returned"} THEN retries ELSE retries - 1)
        /\ \A i \in DOMAIN slept :
              slept[i][1] = initial_delay * Pow2(i - 1) /\ slept[i][2] >= slept[i][1]

C26_Witness ==
    /\ max_retries = MaxRetries
    /\ wrapper_pc = "raised"
    /\ Len(slept) = MaxRetries - 1

\* ------------------------------------------- claims on the daily update
\* the stock threads that are alive
AliveThreads == stock_threads["running"] + (IF stock_thread = "running" THEN 1 ELSE 0)

\* C27: run_daily_update returns normally only if every update that was
\* needed in that attempt completed without error (the stock thread of the
\* attempt ended well, the other needed tables are at the latest trading
\* day), and an exception leaves it only after the last attempt of the last
\* call by the wrapper.
C27_ReturnsOnlyIfAllSucceeded ==
    /\ daily_pc = "returned" =>
          /\ need_update["stock"] => stock_thread = "done"
          /\ \A k \in Kinds \ {"stock"} :
                need_update[k] => latest_date[k] = <<LatestTradingDay>>
    /\ daily_pc = "raised" =>
          /\ attempt = MaxAttempts - 1
          /\ daily_retries = UpdateMaxRetries

C29_IndexStepDoesNotRaise == index_errors # {} => "DownloadError" \in index_errors

\* --------------------------------- claims on save_etf_daily_data_to_db
\* the table an upsert of one row gives: the row replaces the one of its key
UpsertRow(table, symbol, row) ==
    IF ToDate(row.date) = NaT
    THEN table
    ELSE {t \in table : ~(t.symbol = symbol /\ t.date = ToDate(row.date))}
         \cup {[symbol |-> symbol, date |-> ToDate(row.date), close |-> row.close]}

RECURSIVE UpsertRows(_, _, _, _)
UpsertRows(table, symbol, data, i) ==
    IF i > Len(data) THEN table
    ELSE UpsertRows(UpsertRow(table, symbol, data[i]), symbol, data, i + 1)

\* the table after the first n saves that returned
RECURSIVE Expected(_)
Expected(n) ==
    IF n = 0 THEN {}
    ELSE UpsertRows(Expected(n - 1), etf_log[n].symbol, etf_log[n].data, 1)

StoreRows == {etf_store[i] : i \in DOMAIN etf_store}

\* C30: save_etf_daily_data_to_db has upsert semantics: the store holds at
\* most one row per (symbol, date); its rows are those the saves that
\* returned give when each row replaces the one of its key, so a key carries
\* the values of the last row saved for it; saving the same data again
\* leaves the store as after saving it once; and a save that raises, or has
\* not committed yet, leaves the store as it was when the call began.
C30_Upsert ==
    /\ Cardinality({<<r.symbol, r.date>> : r \in StoreRows}) = Len(etf_store)
    /\ StoreRows = Expected(Len(etf_log))
    /\ \A n \in 1..(Len(etf_log) - 1) :
          (etf_log[n + 1].symbol = etf_log[n].symbol /\ etf_log[n + 1].data = etf_log[n].data)
              => etf_log[n + 1].store = etf_log[n].store
    /\ etf_pc # "idle" => etf_store = etf_before

\* two saves returned, the second overwrote the value the first had stored
\* for the key, and the store holds that one row
C30_Witness ==
    /\ Len(etf_log) = 2
    /\ etf_pc = "idle"
    /\ Len(etf_store) = 1
    /\ Len(etf_log[1].store) = 1
    /\ etf_log[1].store[1].close # etf_store[1].close

====
